---- MODULE Spec2Model ----
(***************************************************************************)
(* A model of the connection registry of phosphor-signaling                *)
(* (src/src/index.ts): connect, disconnect, emit, disconnectEmitter,       *)
(* disconnectReceiver and clearSignalData over the two WeakMaps, the       *)
(* Connection and ConnectionList heap objects and the currentEmitter       *)
(* global.  Callbacks are arbitrary client code: while a callback runs it  *)
(* may call any operation of the module (including emit), return or throw. *)
(***************************************************************************)
EXTENDS Integers, Sequences, FiniteSets, TLC

\* ------------------------------------------------------------------------
\* Bounds of the model
\* ------------------------------------------------------------------------
\* number of Connection objects ever allocated by connect
MaxConn == 3
\* number of emit calls nested inside each other
MaxDepth == 2

\* ------------------------------------------------------------------------
\* Values
\* ------------------------------------------------------------------------
\* the JS values null and undefined for object-valued fields
Null == "null"
Undefined == "undefined"
\* the null reference to a Connection / ConnectionList heap object
NoConn == 0

\* objects used as emitters (owners); o2 is also used as a `this` context
Objs == {"o1", "o2"}
\* callback functions
Callbacks == {"f", "g"}
\* signal tokens (one per declared signal)
Tokens == {"t1", "t2"}
\* every object that is used as a key of receiverMap
Receivers == Callbacks \cup {"o2"}
\* the (owner, token, callback, thisArg) of the connect and disconnect calls
\* the clients make: three connections of one signal, a second signal of
\* the same owner, a second owner, one callback with and without a context,
\* receivers with several connections (f, o2), an object that is emitter
\* of one connection and receiver of others (o2), and a thisArg given as
\* null
Requests ==
  { <<"o1", "t1", "f", Undefined>>,
    <<"o1", "t1", "f", Null>>,
    <<"o1", "t1", "g", "o2">>,
    <<"o1", "t1", "f", "o2">>,
    <<"o1", "t2", "f", Undefined>>,
    <<"o2", "t1", "f", Undefined>> }
\* the (owner, token) of the emit calls the clients make
Signals == {<<"o1", "t1">>, <<"o1", "t2">>, <<"o2", "t1">>, <<"o2", "t2">>}
\* the args object of an emit call made at nesting depth d: nested calls
\* pass different objects
Args(d) == {d + 1}

ConnIds == 1..MaxConn
\* a ConnectionList object is named by the connection whose connect made it
ListIds == 1..MaxConn

VARIABLES
  conns,          \* heap of Connection objects
  nconn,          \* number of Connection objects allocated so far
  lists,          \* heap of ConnectionList objects
  emitterMap,     \* emitter object -> ConnectionList (or NoConn)
  receiverMap,    \* receiver object -> head Connection (or NoConn)
  currentEmitter, \* the object emitting the current signal
  stack,          \* the emit calls in progress, innermost last
  connOwner       \* history: the owner each connection was connected on

vars == <<conns, nconn, lists, emitterMap, receiverMap, currentEmitter,
          stack, connOwner>>

\* a Connection as constructed
NewConnection ==
  [token |-> Null, callback |-> Null, thisArg |-> Null,
   nextReceiver |-> NoConn, nextEmitter |-> NoConn, prevEmitter |-> NoConn]

\* a ConnectionList as constructed
NewConnectionList == [refs |-> 0, first |-> NoConn, last |-> NoConn]

\* JS truthiness of an object-valued field, and `a || b`
Falsy(v) == v = Null \/ v = Undefined
Or(a, b) == IF Falsy(a) THEN b ELSE a

\* the registry as one value
Heap ==
  [conns |-> conns, lists |-> lists, emitterMap |-> emitterMap,
   receiverMap |-> receiverMap, err |-> FALSE]

\* WeakMap.get: a key that is not in the map gives no entry
MapGet(m, k) == IF k \in DOMAIN m THEN m[k] ELSE NoConn

\* WeakMap.delete: deleting a key that is not in the map changes nothing
MapDelete(m, k) == IF k \in DOMAIN m THEN [m EXCEPT ![k] = NoConn] ELSE m

\* ------------------------------------------------------------------------
\* The private functions of index.ts
\* ------------------------------------------------------------------------
\* findConnection that looks at the first connection of the list only
findFromFirstOnly(cs, c, token, callback, thisArg) ==
  IF c = NoConn THEN NoConn
  ELSE IF /\ cs[c].token = token
          /\ cs[c].callback = callback
          /\ cs[c].thisArg = thisArg
       THEN c
       ELSE NoConn

RECURSIVE findFromAnyCallback(_, _, _, _, _)
\* findConnection that does not compare the callback
findFromAnyCallback(cs, c, token, callback, thisArg) ==
  IF c = NoConn THEN NoConn
  ELSE IF cs[c].token = token /\ cs[c].thisArg = thisArg
       THEN c
       ELSE findFromAnyCallback(cs, cs[c].nextReceiver, token, callback,
                                thisArg)

RECURSIVE findFrom(_, _, _, _, _)
\* the loop of findConnection, from connection c on
findFrom(cs, c, token, callback, thisArg) ==
  IF c = NoConn THEN NoConn
  ELSE IF /\ cs[c].token = token
          /\ cs[c].callback = callback
          /\ cs[c].thisArg = thisArg
       THEN c
       ELSE findFrom(cs, cs[c].nextReceiver, token, callback, thisArg)

\* Find a matching connection in the given connection list, or null.
findConnection(cs, list, token, callback, thisArg) ==
  findFrom(cs, list.first, token, callback, thisArg)

\* removeFromEmittersList without the case of a connection that is alone
\* in its receiver's list (or in none)
removeFromEmittersListNoSoleCase(H, c) ==
  LET cs == H.conns
      receiver == Or(cs[c].thisArg, cs[c].callback)
      prev == cs[c].prevEmitter
      next == cs[c].nextEmitter
      clear(m) == [m EXCEPT ![c].prevEmitter = NoConn,
                            ![c].nextEmitter = NoConn]
  IN
  IF prev = NoConn THEN
    IF receiver \notin Receivers THEN [H EXCEPT !.err = TRUE]
    ELSE [H EXCEPT !.receiverMap = [@ EXCEPT ![receiver] = next],
                   !.conns = IF next = NoConn THEN clear(cs)
                             ELSE clear([cs EXCEPT ![next].prevEmitter = NoConn])]
  ELSE IF next = NoConn THEN
    [H EXCEPT !.conns = clear([cs EXCEPT ![prev].nextEmitter = NoConn])]
  ELSE
    [H EXCEPT !.conns = clear([cs EXCEPT ![prev].nextEmitter = next,
                                         ![next].prevEmitter = prev])]

\* Remove a connection from the doubly linked list of senders.  WeakMap.set
\* throws a TypeError for a key that is not an object: err is set then.
removeFromEmittersList(H, c) ==
  LET cs == H.conns
      receiver == Or(cs[c].thisArg, cs[c].callback)
      prev == cs[c].prevEmitter
      next == cs[c].nextEmitter
      clear(m) == [m EXCEPT ![c].prevEmitter = NoConn,
                            ![c].nextEmitter = NoConn]
  IN
  IF prev = NoConn /\ next = NoConn THEN
    [H EXCEPT !.receiverMap = MapDelete(@, receiver),
              !.conns = clear(cs)]
  ELSE IF prev = NoConn THEN
    IF receiver \notin Receivers THEN [H EXCEPT !.err = TRUE]
    ELSE [H EXCEPT !.receiverMap = [@ EXCEPT ![receiver] = next],
                   !.conns = clear([cs EXCEPT ![next].prevEmitter = NoConn])]
  ELSE IF next = NoConn THEN
    [H EXCEPT !.conns = clear([cs EXCEPT ![prev].nextEmitter = NoConn])]
  ELSE
    [H EXCEPT !.conns = clear([cs EXCEPT ![prev].nextEmitter = next,
                                         ![next].prevEmitter = prev])]

RECURSIVE cleanLoop(_, _, _, _)
\* the while loop of cleanList; prev = NoConn is the unassigned `prev`
cleanLoop(cs, list, prev, c) ==
  IF c = NoConn THEN [conns |-> cs, list |-> list, prev |-> prev]
  ELSE LET next == cs[c].nextReceiver IN
       IF cs[c].callback = Null THEN
         cleanLoop([cs EXCEPT ![c].nextReceiver = NoConn], list, prev, next)
       ELSE IF prev = NoConn THEN
         cleanLoop(cs, [list EXCEPT !.first = c], c, next)
       ELSE
         cleanLoop([cs EXCEPT ![prev].nextReceiver = c], list, c, next)

\* cleanList that leaves the nextReceiver of the last live connection as
\* it finds it
cleanListKeepsTailLink(H, l) ==
  LET r == cleanLoop(H.conns, H.lists[l], NoConn, H.lists[l].first) IN
  IF r.prev = NoConn THEN
    [H EXCEPT !.conns = r.conns,
              !.lists[l] = [r.list EXCEPT !.first = NoConn, !.last = NoConn]]
  ELSE
    [H EXCEPT !.conns = r.conns,
              !.lists[l] = [r.list EXCEPT !.last = r.prev]]

\* Remove the dead connections from the given connection list.
cleanList(H, l) ==
  LET r == cleanLoop(H.conns, H.lists[l], NoConn, H.lists[l].first) IN
  IF r.prev = NoConn THEN
    [H EXCEPT !.conns = r.conns,
              !.lists[l] = [r.list EXCEPT !.first = NoConn, !.last = NoConn]]
  ELSE
    [H EXCEPT !.conns = [r.conns EXCEPT ![r.prev].nextReceiver = NoConn],
              !.lists[l] = [r.list EXCEPT !.last = r.prev]]

RECURSIVE invokeFromAnyToken(_, _, _, _, _)
\* invokeList that calls the live connections of every token
invokeFromAnyToken(cs, c, last, token, dirty) ==
  IF c = NoConn THEN [conn |-> NoConn, dirty |-> dirty]
  ELSE IF cs[c].callback # Null THEN
    [conn |-> c, dirty |-> dirty]
  ELSE IF c = last THEN [conn |-> NoConn, dirty |-> TRUE]
       ELSE invokeFromAnyToken(cs, cs[c].nextReceiver, last, token, TRUE)

RECURSIVE invokeFrom(_, _, _, _, _)
\* the while loop of invokeList from connection c on, up to the next
\* connection whose callback it calls (conn) or to its end (conn = NoConn)
invokeFrom(cs, c, last, token, dirty) ==
  IF c = NoConn THEN [conn |-> NoConn, dirty |-> dirty]
  ELSE IF cs[c].callback # Null /\ cs[c].token = token THEN
    [conn |-> c, dirty |-> dirty]
  ELSE LET d == dirty \/ cs[c].callback = Null IN
       IF c = last THEN [conn |-> NoConn, dirty |-> d]
       ELSE invokeFrom(cs, cs[c].nextReceiver, last, token, d)

\* invokeList that walks to the end of the list, past the `last` it saved
invokeResumeNoSnapshot(cs, c, last, token, dirty) ==
  invokeFrom(cs, cs[c].nextReceiver, NoConn, token, dirty)

\* invokeList that does not step to conn.nextReceiver after a call
invokeResumeNoAdvance(cs, c, last, token, dirty) ==
  invokeFrom(cs, c, last, token, dirty)

\* invokeList after the callback of connection c has returned
invokeResume(cs, c, last, token, dirty) ==
  IF c = last THEN [conn |-> NoConn, dirty |-> dirty]
  ELSE invokeFrom(cs, cs[c].nextReceiver, last, token, dirty)

\* emit whose finally block does not decrement the reentrancy counter
emitExitNoDecrement(H, l, dirty) ==
  IF dirty /\ H.lists[l].refs - 1 = 0 THEN cleanList(H, l) ELSE H

\* emit that compacts a dirty list whatever its reentrancy counter is
emitExitNoRefsCheck(H, l, dirty) ==
  LET H1 == [H EXCEPT !.lists[l].refs = @ - 1] IN
  IF dirty THEN cleanList(H1, l) ELSE H1

\* the finally block of emit and the statement after it, on the list l the
\* call took from emitterMap (the exit by exception ends after the finally)
emitExit(H, l, dirty) ==
  LET H1 == [H EXCEPT !.lists[l].refs = @ - 1] IN
  IF dirty /\ H1.lists[l].refs = 0 THEN cleanList(H1, l) ELSE H1

RECURSIVE disconnectEmitterLoopNoUnlink(_, _)
\* disconnectEmitter that leaves the connections in their receivers' lists
disconnectEmitterLoopNoUnlink(H, c) ==
  IF c = NoConn THEN H
  ELSE disconnectEmitterLoopNoUnlink(
         [H EXCEPT !.conns[c].callback = Null, !.conns[c].thisArg = Null],
         H.conns[c].nextReceiver)

RECURSIVE disconnectEmitterLoop(_, _)
\* the while loop of disconnectEmitter
disconnectEmitterLoop(H, c) ==
  IF c = NoConn THEN H
  ELSE LET H1 == removeFromEmittersList(H, c) IN
       IF H1.err THEN H1
       ELSE disconnectEmitterLoop(
              [H1 EXCEPT !.conns[c].callback = Null,
                         !.conns[c].thisArg = Null],
              H1.conns[c].nextReceiver)

\* disconnectEmitter that deletes the entry of the emitter only
disconnectEmitterEntryOnly(H, obj) ==
  LET l == MapGet(H.emitterMap, obj) IN
  IF l = NoConn THEN H ELSE [H EXCEPT !.emitterMap[obj] = NoConn]

\* Remove all connections where the given object is the emitter.
disconnectEmitter(H, obj) ==
  LET l == MapGet(H.emitterMap, obj) IN
  IF l = NoConn THEN H
  ELSE LET H1 == disconnectEmitterLoop(H, H.lists[l].first) IN
       IF H1.err THEN H1 ELSE [H1 EXCEPT !.emitterMap[obj] = NoConn]

\* disconnectReceiver that clears the head of the receiver's list only
disconnectReceiverLoopHeadOnly(cs, c) ==
  IF c = NoConn THEN cs
  ELSE [cs EXCEPT ![c].callback = Null, ![c].thisArg = Null,
                  ![c].prevEmitter = NoConn, ![c].nextEmitter = NoConn]

RECURSIVE disconnectReceiverLoop(_, _)
\* the while loop of disconnectReceiver
disconnectReceiverLoop(cs, c) ==
  IF c = NoConn THEN cs
  ELSE disconnectReceiverLoop(
         [cs EXCEPT ![c].callback = Null, ![c].thisArg = Null,
                    ![c].prevEmitter = NoConn, ![c].nextEmitter = NoConn],
         cs[c].nextEmitter)

\* Remove all connections where the given object is the receiver.
disconnectReceiver(H, obj) ==
  LET c == MapGet(H.receiverMap, obj) IN
  IF c = NoConn THEN H
  ELSE [H EXCEPT !.conns = disconnectReceiverLoop(@, c),
                 !.receiverMap = MapDelete(@, obj)]

\* clearSignalData that removes the connections the object emits only
clearSignalDataEmitterOnly(H, obj) == disconnectEmitter(H, obj)

\* Clear all signal data associated with the given object.
clearSignalData(H, obj) ==
  LET H1 == disconnectEmitter(H, obj) IN
  IF H1.err THEN H1 ELSE disconnectReceiver(H1, obj)

\* what connect does: "false" for an equivalent connection, "throw" for the
\* TypeError of `list.last.nextReceiver` on a list whose last is null,
\* "true" otherwise
connectOutcome(H, owner, token, callback, thisArgIn) ==
  LET thisArg == Or(thisArgIn, Undefined)
      l == MapGet(H.emitterMap, owner)
  IN
  IF l # NoConn /\
     findConnection(H.conns, H.lists[l], token, callback, thisArg) # NoConn
  THEN "false"
  ELSE IF l # NoConn /\ H.lists[l].last = NoConn THEN "throw"
  ELSE "true"

\* connect that puts the new connection at the head of the owner's list
connectAtHead(H, id, owner, token, callback, thisArgIn) ==
  LET thisArg == Or(thisArgIn, Undefined)
      l == MapGet(H.emitterMap, owner)
      conn == [NewConnection EXCEPT !.token = token, !.callback = callback,
                                    !.thisArg = thisArg]
      H0 == [H EXCEPT !.conns[id] = conn]
      H1 == IF l = NoConn THEN
              [H0 EXCEPT !.lists[id] = [NewConnectionList EXCEPT
                                          !.first = id, !.last = id],
                         !.emitterMap[owner] = id]
            ELSE
              [H0 EXCEPT !.conns[id].nextReceiver = H.lists[l].first,
                         !.lists[l].first = id]
      receiver == Or(thisArg, callback)
      head == MapGet(H.receiverMap, receiver)
      H2 == IF head # NoConn THEN
              [H1 EXCEPT !.conns[head].prevEmitter = id,
                         !.conns[id].nextEmitter = head]
            ELSE H1
  IN
  IF connectOutcome(H, owner, token, callback, thisArgIn) = "true"
  THEN [H2 EXCEPT !.receiverMap[receiver] = id]
  ELSE H

\* connect that does not set prevEmitter of the former head of the
\* receiver's list
connectNoPrevLink(H, id, owner, token, callback, thisArgIn) ==
  LET thisArg == Or(thisArgIn, Undefined)
      l == MapGet(H.emitterMap, owner)
      conn == [NewConnection EXCEPT !.token = token, !.callback = callback,
                                    !.thisArg = thisArg]
      H0 == [H EXCEPT !.conns[id] = conn]
      H1 == IF l = NoConn THEN
              [H0 EXCEPT !.lists[id] = [NewConnectionList EXCEPT
                                          !.first = id, !.last = id],
                         !.emitterMap[owner] = id]
            ELSE
              [H0 EXCEPT !.conns[H.lists[l].last].nextReceiver = id,
                         !.lists[l].last = id]
      receiver == Or(thisArg, callback)
      head == MapGet(H.receiverMap, receiver)
      H2 == IF head # NoConn THEN
              [H1 EXCEPT !.conns[id].nextEmitter = head]
            ELSE H1
  IN
  IF connectOutcome(H, owner, token, callback, thisArgIn) = "true"
  THEN [H2 EXCEPT !.receiverMap[receiver] = id]
  ELSE H

\* Connect a signal to a callback; id is the Connection that `new` returns
connect(H, id, owner, token, callback, thisArgIn) ==
  LET thisArg == Or(thisArgIn, Undefined)
      l == MapGet(H.emitterMap, owner)
      conn == [NewConnection EXCEPT !.token = token, !.callback = callback,
                                    !.thisArg = thisArg]
      H0 == [H EXCEPT !.conns[id] = conn]
      \* Add the connection to the receivers list.
      H1 == IF l = NoConn THEN
              [H0 EXCEPT !.lists[id] = [NewConnectionList EXCEPT
                                          !.first = id, !.last = id],
                         !.emitterMap[owner] = id]
            ELSE
              [H0 EXCEPT !.conns[H.lists[l].last].nextReceiver = id,
                         !.lists[l].last = id]
      \* Add the connection to the emitters list.
      receiver == Or(thisArg, callback)
      head == MapGet(H.receiverMap, receiver)
      H2 == IF head # NoConn THEN
              [H1 EXCEPT !.conns[head].prevEmitter = id,
                         !.conns[id].nextEmitter = head]
            ELSE H1
  IN
  IF connectOutcome(H, owner, token, callback, thisArgIn) = "true"
  THEN [H2 EXCEPT !.receiverMap[receiver] = id]
  ELSE H

\* what disconnect returns
disconnectOutcome(H, owner, token, callback, thisArgIn) ==
  LET thisArg == Or(thisArgIn, Undefined)
      l == MapGet(H.emitterMap, owner)
  IN
  IF l = NoConn THEN "false"
  ELSE IF findConnection(H.conns, H.lists[l], token, callback, thisArg)
            = NoConn
       THEN "false"
       ELSE "true"

\* disconnect that clears the context of the connection, not its callback
disconnectKeepsCallback(H, owner, token, callback, thisArgIn) ==
  LET thisArg == Or(thisArgIn, Undefined)
      l == MapGet(H.emitterMap, owner)
      conn == findConnection(H.conns, H.lists[l], token, callback, thisArg)
      H1 == removeFromEmittersList(H, conn)
  IN
  IF disconnectOutcome(H, owner, token, callback, thisArgIn) = "false" THEN H
  ELSE IF H1.err THEN H1
  ELSE [H1 EXCEPT !.conns[conn].thisArg = Null]

\* Disconnect a signal from a callback.
disconnect(H, owner, token, callback, thisArgIn) ==
  LET thisArg == Or(thisArgIn, Undefined)
      l == MapGet(H.emitterMap, owner)
      conn == findConnection(H.conns, H.lists[l], token, callback, thisArg)
      H1 == removeFromEmittersList(H, conn)
  IN
  IF disconnectOutcome(H, owner, token, callback, thisArgIn) = "false" THEN H
  ELSE IF H1.err THEN H1
  ELSE [H1 EXCEPT !.conns[conn].callback = Null,
                  !.conns[conn].thisArg = Null]

\* ------------------------------------------------------------------------
\* History kept for the properties (no effect on the program)
\* ------------------------------------------------------------------------
\* the connections made on owner with token that are live
LiveOn(owner, token) ==
  {c \in 1..nconn : /\ connOwner[c] = owner
                    /\ conns[c].token = token
                    /\ conns[c].callback # Null}

\* the frames of the emit calls in progress after a step that leaves the
\* registry with connections cs.  These fields of a frame are history
\* (with refs0 and seen, see Emit and FramesSeen):
\*   pending  the connections that were live on the signal when the call
\*            started, are still live, and whose callback the call has not
\*            completed
\*   skipped  the connections that left pending by losing their callback
\*            before the call invoked them
\*   added    the live connections made on the signal since the call started
Frames(stk, cs) ==
  [i \in 1..Len(stk) |->
     [stk[i] EXCEPT
        !.pending = {c \in @ : cs[c].callback # Null},
        !.skipped = @ \cup {c \in stk[i].pending \ {stk[i].conn} :
                              cs[c].callback = Null},
        !.added = {c \in @ : cs[c].callback # Null}]]

\* the frames after connect has made connection id on (owner, token)
FramesAdd(stk, id, owner, token) ==
  [i \in 1..Len(stk) |->
     IF stk[i].owner = owner /\ stk[i].token = token
     THEN [stk[i] EXCEPT !.added = @ \cup {id}]
     ELSE stk[i]]

\* the frames after a call of emit that iterated list l has ended; dirty
\* tells whether its invokeList met a dead connection.  History:
\*   seen     an emit call nested in this one, on the same list, has met a
\*            dead connection
FramesSeen(stk, l, dirty) ==
  [i \in 1..Len(stk) |->
     IF stk[i].list = l /\ dirty
     THEN [stk[i] EXCEPT !.seen = TRUE]
     ELSE stk[i]]

\* ------------------------------------------------------------------------
\* The operations, called from the top level or from a running callback
\* ------------------------------------------------------------------------
\* the call `conn.callback.call(conn.thisArg, args)` of invokeList
Invocation(cs, c, args) ==
  [callback |-> cs[c].callback, thisArg |-> cs[c].thisArg, args |-> args]

SetHeap(H) ==
  /\ conns' = H.conns
  /\ lists' = H.lists
  /\ emitterMap' = H.emitterMap
  /\ receiverMap' = H.receiverMap

Top == stack[Len(stack)]
Pop == SubSeq(stack, 1, Len(stack) - 1)

Connect(owner, token, callback, thisArgIn) ==
  LET out == connectOutcome(Heap, owner, token, callback, thisArgIn) IN
  /\ out = "true" => nconn < MaxConn
  /\ IF out = "true" THEN
       /\ SetHeap(connect(Heap, nconn + 1, owner, token, callback, thisArgIn))
       /\ nconn' = nconn + 1
       /\ connOwner' = [connOwner EXCEPT ![nconn + 1] = owner]
       /\ stack' = FramesAdd(stack, nconn + 1, owner, token)
     ELSE UNCHANGED <<conns, lists, emitterMap, receiverMap, nconn, connOwner,
                      stack>>
  /\ UNCHANGED currentEmitter

Disconnect(owner, token, callback, thisArgIn) ==
  LET H == disconnect(Heap, owner, token, callback, thisArgIn) IN
  /\ SetHeap(H)
  /\ stack' = Frames(stack, H.conns)
  /\ UNCHANGED <<nconn, currentEmitter, connOwner>>

Emit(owner, token, args) ==
  LET l == MapGet(emitterMap, owner) IN
  IF l = NoConn THEN
    UNCHANGED vars
  ELSE
    LET H1 == [Heap EXCEPT !.lists[l].refs = @ + 1]
        r == invokeFrom(conns, lists[l].first, lists[l].last, token, FALSE)
    IN
    IF r.conn = NoConn THEN
      /\ SetHeap(emitExit(H1, l, r.dirty))
      /\ stack' = FramesSeen(stack, l, r.dirty)
      /\ UNCHANGED <<nconn, currentEmitter, connOwner>>
    ELSE
      /\ Len(stack) < MaxDepth
      /\ SetHeap(H1)
      /\ currentEmitter' = owner
      /\ stack' = Append(stack,
           [owner |-> owner, list |-> l, token |-> token, args |-> args,
            last |-> lists[l].last, conn |-> r.conn, dirty |-> r.dirty,
            prev |-> currentEmitter,
            call |-> Invocation(conns, r.conn, args),
            \* history: refs before the call, the sets of Frames, and
            \* the flag of FramesSeen
            refs0 |-> lists[l].refs, pending |-> LiveOn(owner, token),
            skipped |-> {}, added |-> {}, seen |-> FALSE])
      /\ UNCHANGED <<nconn, connOwner>>

\* a return that leaves emit without restoring currentEmitter
CallbackReturnKeepsEmitter ==
  /\ stack # <<>>
  /\ LET r == invokeResume(conns, Top.conn, Top.last, Top.token, Top.dirty) IN
     IF r.conn = NoConn THEN
       /\ SetHeap(emitExit(Heap, Top.list, r.dirty))
       /\ stack' = FramesSeen(Pop, Top.list, r.dirty)
     ELSE
       /\ stack' = [stack EXCEPT ![Len(stack)] =
            [@ EXCEPT !.conn = r.conn, !.dirty = r.dirty,
                      !.call = Invocation(conns, r.conn, Top.args),
                      !.pending = @ \ {Top.conn}]]
       /\ UNCHANGED <<conns, lists, emitterMap, receiverMap>>
  /\ UNCHANGED <<nconn, connOwner, currentEmitter>>

\* the running callback returns: invokeList goes on, and emit ends when
\* invokeList does
CallbackReturn ==
  /\ stack # <<>>
  /\ LET r == invokeResume(conns, Top.conn, Top.last, Top.token, Top.dirty) IN
     IF r.conn = NoConn THEN
       /\ SetHeap(emitExit(Heap, Top.list, r.dirty))
       /\ currentEmitter' = Top.prev
       /\ stack' = FramesSeen(Pop, Top.list, r.dirty)
     ELSE
       /\ stack' = [stack EXCEPT ![Len(stack)] =
            [@ EXCEPT !.conn = r.conn, !.dirty = r.dirty,
                      !.call = Invocation(conns, r.conn, Top.args),
                      !.pending = @ \ {Top.conn}]]
       /\ UNCHANGED <<conns, lists, emitterMap, receiverMap, currentEmitter>>
  /\ UNCHANGED <<nconn, connOwner>>

\* a throw that leaves emit without running its finally block
CallbackThrowNoFinally ==
  /\ stack # <<>>
  /\ stack' = FramesSeen(Pop, Top.list, Top.dirty)
  /\ UNCHANGED <<conns, lists, emitterMap, receiverMap, currentEmitter,
                 nconn, connOwner>>

\* the running callback throws: emit leaves through its finally block
CallbackThrow ==
  /\ stack # <<>>
  /\ SetHeap(emitExit(Heap, Top.list, FALSE))
  /\ currentEmitter' = Top.prev
  /\ stack' = FramesSeen(Pop, Top.list, Top.dirty)
  /\ UNCHANGED <<nconn, connOwner>>

DisconnectEmitter(obj) ==
  LET H == disconnectEmitter(Heap, obj) IN
  /\ SetHeap(H)
  /\ stack' = Frames(stack, H.conns)
  /\ UNCHANGED <<nconn, currentEmitter, connOwner>>

DisconnectReceiver(obj) ==
  LET H == disconnectReceiver(Heap, obj) IN
  /\ SetHeap(H)
  /\ stack' = Frames(stack, H.conns)
  /\ UNCHANGED <<nconn, currentEmitter, connOwner>>

ClearSignalData(obj) ==
  LET H == clearSignalData(Heap, obj) IN
  /\ SetHeap(H)
  /\ stack' = Frames(stack, H.conns)
  /\ UNCHANGED <<nconn, currentEmitter, connOwner>>

Init ==
  /\ conns = [c \in ConnIds |-> NewConnection]
  /\ nconn = 0
  /\ lists = [l \in ListIds |-> NewConnectionList]
  /\ emitterMap = [o \in Objs |-> NoConn]
  /\ receiverMap = [r \in Receivers |-> NoConn]
  /\ currentEmitter = Null
  /\ stack = <<>>
  /\ connOwner = [c \in ConnIds |-> Null]

Next ==
  \/ \E q \in Requests : Connect(q[1], q[2], q[3], q[4])
  \/ \E q \in Requests : Disconnect(q[1], q[2], q[3], q[4])
  \/ \E q \in Signals, a \in Args(Len(stack)) : Emit(q[1], q[2], a)
  \/ CallbackReturn
  \/ CallbackThrow
  \/ \E o \in Objs : DisconnectEmitter(o)
  \/ \E r \in Receivers : DisconnectReceiver(r)
  \/ \E o \in Objs : ClearSignalData(o)

Spec == Init /\ [][Next]_vars

\* the return of the callback that the emit call at nesting depth d runs
ReturnAt(d) == Len(stack) = d /\ CallbackReturn

\* Spec with callbacks that do not run forever: a callback that is running
\* again and again (between the emit calls it makes) returns
FairSpec == Spec /\ \A d \in 1..MaxDepth : SF_vars(ReturnAt(d))

\* ------------------------------------------------------------------------
\* Definitions used by the properties
\* ------------------------------------------------------------------------
TopOf(stk) == stk[Len(stk)]
Min(S) == CHOOSE x \in S : \A y \in S : x <= y

\* the live connections of the owner of request q that have q's triple
ReqLive(q) ==
  {c \in 1..nconn : /\ connOwner[c] = q[1]
                    /\ conns[c].token = q[2]
                    /\ conns[c].callback = q[3]
                    /\ conns[c].thisArg = Or(q[4], Undefined)}

\* this step enters the callback of connection c
Entered(c) ==
  /\ stack' # <<>>
  /\ TopOf(stack').conn = c
  /\ \/ Len(stack') > Len(stack)
     \/ Len(stack') = Len(stack) /\ TopOf(stack').conn # Top.conn

\* a call of emit that returns normally has invoked every connection that
\* was live on the signal when it started and is still live
EmitEndsComplete ==
  (CallbackReturn /\ Len(stack') < Len(stack)) => Top.pending \subseteq {Top.conn}

\* emit invokes nothing only where the signal has no live connection
EmitNothingOnlyIfNone ==
  \A q \in Signals :
    LET l == emitterMap[q[1]] IN
    (\/ l = NoConn
     \/ invokeFrom(conns, lists[l].first, lists[l].last, q[2], FALSE).conn
          = NoConn)
    => LiveOn(q[1], q[2]) = {}

\* the frames without the history field seen
NoSeen(stk) == [i \in 1..Len(stk) |-> [stk[i] EXCEPT !.seen = FALSE]]

RECURSIVE listFrom(_, _, _)
\* the connections reached from c by at most n nextReceiver links
listFrom(cs, c, n) ==
  IF c = NoConn \/ n = 0 THEN {}
  ELSE {c} \cup listFrom(cs, cs[c].nextReceiver, n - 1)

\* the connections linked in the ConnectionList l of registry H
ListChain(H, l) == listFrom(H.conns, H.lists[l].first, MaxConn)

\* the registry after the step
HeapNext ==
  [conns |-> conns', lists |-> lists', emitterMap |-> emitterMap',
   receiverMap |-> receiverMap', err |-> FALSE]

\* C1: emit invokes the live connections of the signal in the order of their
\* connect calls (the order of the connection ids): no connection that
\* still waits for its call was connected before the one being called, the
\* call of a live connection is one that waited, and nothing still waits
\* when emit returns normally.  Without a mutation by a callback those are
\* c1..cN, each once.
C1_OrderInv ==
  \A i \in 1..Len(stack) :
    LET F == stack[i] IN
    /\ \A c \in F.pending : c >= F.conn
    /\ conns[F.conn].callback # Null => F.conn \in F.pending

C1_EmitInConnectOrder ==
  /\ [](C1_OrderInv /\ EmitNothingOnlyIfNone)
  /\ [][EmitEndsComplete]_vars

\* C1 witness: connection 3 is being called after connection 1, both live on
\* one signal, with connection 2 between them disconnected and compacted
\* out of the list by an earlier emit
C1_Witness ==
  /\ Len(stack) = 1
  /\ Top.conn = 3
  /\ Top.pending = {3}
  /\ conns[1].callback # Null
  /\ conns[1].token = Top.token /\ connOwner[1] = Top.owner
  /\ connOwner[2] = Top.owner
  /\ conns[2].callback = Null
  /\ conns[1].nextReceiver = 3
  /\ lists[Top.list].first = 1

\* C2: every call emit makes is of a connection of the emitting owner with
\* the emitted token, that was live on the signal when emit started and has
\* not been called by it before, with emit's args and the connection's
\* callback and context; emit calls nothing only if nothing is live, and at
\* its normal end has called everything that stayed live.
C2_CallInv ==
  \A i \in 1..Len(stack) :
    LET F == stack[i] IN
    /\ connOwner[F.conn] = F.owner
    /\ conns[F.conn].token = F.token
    /\ F.call.args = F.args
    /\ conns[F.conn].callback # Null =>
         /\ F.conn \in F.pending
         /\ F.call.callback = conns[F.conn].callback
         /\ F.call.thisArg = conns[F.conn].thisArg

C2_EmitInvokesLiveOnce ==
  /\ [](C2_CallInv /\ EmitNothingOnlyIfNone)
  /\ [][/\ EmitEndsComplete
        /\ \A c \in 1..nconn :
             Entered(c) => /\ conns[c].callback # Null
                           /\ connOwner[c] = TopOf(stack').owner
                           /\ conns[c].token = TopOf(stack').token]_vars

\* C2 witness: a connection with a context is being called on (o1, t1)
\* while o1 has a live connection of token t2 and o2 a live connection
C2_Witness ==
  /\ Len(stack) = 1
  /\ Top.owner = "o1" /\ Top.token = "t1"
  /\ Top.call.thisArg = "o2"
  /\ Top.pending = {Top.conn}
  /\ LiveOn("o1", "t2") # {}
  /\ LiveOn("o2", "t1") # {}

\* the receiver of a live connection: `thisArg || callback`
ReceiverOf(cs, c) == Or(cs[c].thisArg, cs[c].callback)

RECURSIVE chainFrom(_, _, _)
\* the connections reached from c by at most n nextEmitter links
chainFrom(cs, c, n) ==
  IF c = NoConn \/ n = 0 THEN {}
  ELSE {c} \cup chainFrom(cs, cs[c].nextEmitter, n - 1)

\* the connections in the list of receiver r
RecvChain(H, r) == chainFrom(H.conns, H.receiverMap[r], MaxConn)

\* C3: an owner never has two live connections with the same token,
\* callback and context, and connect with the triple of a live connection of
\* the owner returns false and changes nothing.
C3_UniqueConnections ==
  /\ \A c1, c2 \in 1..nconn :
       (/\ c1 # c2
        /\ conns[c1].callback # Null
        /\ connOwner[c1] = connOwner[c2]
        /\ conns[c1].token = conns[c2].token
        /\ conns[c1].thisArg = conns[c2].thisArg)
       => conns[c1].callback # conns[c2].callback
  /\ \A q \in Requests :
       ReqLive(q) # {} =>
         /\ connectOutcome(Heap, q[1], q[2], q[3], q[4]) = "false"
         /\ connect(Heap, nconn + 1, q[1], q[2], q[3], q[4]) = Heap

\* C3 witness: emit is calling the only live connection of a signal, made
\* with no context, where connect(o1, t1, f, null) would be the second
\* connect of that triple; two more connections of the receiver exist
C3_Witness ==
  /\ Len(stack) = 1
  /\ Top.conn \in ReqLive(<<"o1", "t1", "f", Null>>)
  /\ Top.pending = {Top.conn}
  /\ nconn = MaxConn
  /\ Cardinality(RecvChain(Heap, "f")) >= 2

\* C4: in every reachable state connect with a triple that no live
\* connection of the owner has returns true, and the new connection is the
\* last of the owner's list and the head of its receiver's list.
C4_ConnectSucceeds ==
  /\ [](\A q \in Requests :
          ReqLive(q) = {} =>
            connectOutcome(Heap, q[1], q[2], q[3], q[4]) = "true")
  /\ [][\A q \in Requests :
          (Connect(q[1], q[2], q[3], q[4]) /\ ReqLive(q) = {}) =>
            /\ nconn' = nconn + 1
            /\ lists'[emitterMap'[q[1]]].last = nconn'
            /\ receiverMap'[Or(Or(q[4], Undefined), q[3])] = nconn']_vars

\* C5: emit never calls a connection made on its signal after it started,
\* and a call of emit that starts later calls it: emit calls nothing only if
\* nothing is live, and at its normal end has called everything that was
\* live at its start and stayed live.
C5_AddedInv ==
  \A i \in 1..Len(stack) : stack[i].conn \notin stack[i].added

C5_ConnectedDuringEmit ==
  /\ [](C5_AddedInv /\ EmitNothingOnlyIfNone)
  /\ [][/\ EmitEndsComplete
        /\ (stack # <<>> /\ Len(stack') = Len(stack)) =>
             \A c \in Top.added : ~Entered(c)]_vars

\* C5 witness: a callback of an emit in progress has connected a connection
\* to the emitted signal and then emitted the signal again; the nested emit
\* is calling the new connection, which the outer emit has not called
C5_Witness ==
  /\ Len(stack) = 2
  /\ stack[1].owner = stack[2].owner /\ stack[1].token = stack[2].token
  /\ stack[2].conn \in stack[1].added
  /\ stack[2].conn > stack[1].last

\* C6: a connection whose callback has been cleared keeps it cleared and is
\* never called again, by an emit that starts later or by one in progress;
\* and disconnect that returns true has cleared the callback of the live
\* connection with its triple.
C6_DisconnectedNeverInvoked ==
  [][/\ \A c \in 1..nconn :
          conns[c].callback = Null =>
            conns'[c].callback = Null /\ ~Entered(c)
     /\ \A q \in Requests :
          (/\ Disconnect(q[1], q[2], q[3], q[4])
           /\ disconnectOutcome(Heap, q[1], q[2], q[3], q[4]) = "true")
          => /\ ReqLive(q) # {}
             /\ \A c \in ReqLive(q) : conns'[c].callback = Null]_vars

\* C6 witness: during a nested emit a connection that lay later in the list
\* lost its callback before either emit in progress called it, and the
\* nested emit has gone past it to a later connection
C6_Witness ==
  /\ Len(stack) = 2
  /\ stack[1].list = stack[2].list
  /\ \E c \in stack[1].skipped \cap stack[2].skipped :
       /\ stack[2].conn > c
       /\ emitterMap[stack[2].owner] = stack[2].list

\* C7: when a callback throws, the emit that called it calls nothing more
\* and ends, leaving the enclosing emits as they were, the reentrancy
\* counter of its list at its value before the call and the active emitter
\* the owner of the enclosing emit (none at the top level).
C7_ThrowRestores ==
  [][CallbackThrow =>
       /\ NoSeen(stack') = NoSeen(Pop)
       /\ \A c \in 1..nconn : ~Entered(c)
       /\ lists'[Top.list].refs = Top.refs0
       /\ currentEmitter' = IF Pop = <<>> THEN Null ELSE TopOf(Pop).owner]_vars

\* C7 witness: a callback of an emit nested in an emit of the same signal
\* is running, with a live connection after it in the list that waits for
\* its call, as one does in the enclosing emit: the state in which a throw
\* of the callback ends the nested emit with calls left to make
C7_Witness ==
  /\ Len(stack) = 2
  /\ stack[1].list = stack[2].list
  /\ stack[1].token = stack[2].token
  /\ stack[2].pending \ {stack[2].conn} # {}
  /\ stack[1].pending \ {stack[1].conn} # {}
  /\ lists[stack[2].list].refs = 2
  /\ stack[2].refs0 = 1
  /\ currentEmitter = stack[2].owner

\* C8: disconnect with a triple that no live connection of the owner has
\* returns false and changes nothing.
C8_DisconnectAbsent ==
  /\ [](\A q \in Requests :
          ReqLive(q) = {} =>
            /\ disconnectOutcome(Heap, q[1], q[2], q[3], q[4]) = "false"
            /\ disconnect(Heap, q[1], q[2], q[3], q[4]) = Heap)
  /\ [][\A q \in Requests :
          (Disconnect(q[1], q[2], q[3], q[4]) /\ ReqLive(q) = {})
          => UNCHANGED vars]_vars

\* C8 witness: o1 has a list with a live connection and a tombstone of the
\* same token in it, and a request of that token has no live connection
C8_Witness ==
  /\ emitterMap["o1"] # NoConn
  /\ \E c, d \in 1..nconn :
       /\ c < d
       /\ connOwner[c] = "o1" /\ connOwner[d] = "o1"
       /\ conns[c].callback = Null /\ conns[c].token = "t1"
       /\ conns[c].nextReceiver = d
       /\ conns[d].callback # Null /\ conns[d].token = "t1"
  /\ \E q \in Requests : q[1] = "o1" /\ q[2] = "t1" /\ ReqLive(q) = {}

\* C9: while e has no emitter registry entry, no connection made on e is
\* live, emit on e calls nothing, no list of a receiver holds a connection
\* made on e and disconnectReceiver leaves those connections as they are;
\* and disconnectEmitter(e) removes e's entry and leaves nothing of e
\* waiting for a call in an emit in progress.
C9_NoEntryInv ==
  \A e \in Objs :
    emitterMap[e] = NoConn =>
      /\ \A c \in 1..nconn : connOwner[c] = e => conns[c].callback = Null
      /\ \A r \in Receivers :
           /\ \A c \in RecvChain(Heap, r) : connOwner[c] # e
           /\ \A c \in 1..nconn :
                connOwner[c] = e =>
                  disconnectReceiver(Heap, r).conns[c] = conns[c]

C9_AfterDisconnectEmitter ==
  /\ [](C9_NoEntryInv /\ EmitNothingOnlyIfNone)
  /\ [][\A e \in Objs :
          DisconnectEmitter(e) =>
            /\ emitterMap'[e] = NoConn
            /\ \A i \in 1..Len(stack') :
                 stack'[i].owner = e => stack'[i].pending = {}
            /\ \A c \in 1..nconn : connOwner[c] = e => ~Entered(c)]_vars

\* C9 witness: o1 has no entry, connections were made on it, one of them
\* after the head of f's list was made, and the list of f still holds the
\* connection of f made on o2
C9_Witness ==
  /\ emitterMap["o1"] = NoConn
  /\ Cardinality({c \in 1..nconn : connOwner[c] = "o1"}) >= 2
  /\ \E c \in RecvChain(Heap, "f") :
       connOwner[c] = "o2" /\ conns[c].callback = "f"
  /\ \E c \in 1..nconn : connOwner[c] = "o1" /\ c > receiverMap["f"]

\* C10: disconnectReceiver(r) clears the callback of every live connection
\* whose receiver is r and removes the entry of r, so that nothing of r
\* waits for a call in any emit in progress; a cleared callback stays
\* cleared and is never called.
C10_AfterDisconnectReceiver ==
  [][/\ \A r \in Receivers :
          DisconnectReceiver(r) =>
            /\ receiverMap'[r] = NoConn
            /\ \A c \in 1..nconn :
                 (conns[c].callback # Null /\ ReceiverOf(conns, c) = r) =>
                   /\ conns'[c].callback = Null
                   /\ \A i \in 1..Len(stack') : c \notin stack'[i].pending
     /\ \A c \in 1..nconn :
          conns[c].callback = Null =>
            conns'[c].callback = Null /\ ~Entered(c)]_vars

\* C10 witness: the callback that emit on o1 is running was called with the
\* context o2; its connection and a connection later in the list have lost
\* their callbacks during the call, o2 has no receiver entry, o1 still has
\* its list, and nothing waits for a call any more
C10_Witness ==
  /\ Len(stack) = 1
  /\ Top.call.thisArg = "o2"
  /\ conns[Top.conn].callback = Null
  /\ Top.skipped # {}
  /\ receiverMap["o2"] = NoConn
  /\ emitterMap[Top.owner] = Top.list
  /\ Top.pending = {}

\* C11: clearSignalData(x) leaves x without an emitter entry and without a
\* receiver entry, clears the callback of every connection made on x and of
\* every connection whose receiver is x, and leaves none of them waiting for
\* a call in an emit in progress; while x has neither entry no connection of
\* x (as owner or as receiver) is live, emit on x calls nothing, and a
\* cleared callback stays cleared and is never called.
C11_NoEntriesInv ==
  \A x \in Objs :
    (emitterMap[x] = NoConn /\ MapGet(receiverMap, x) = NoConn) =>
      \A c \in 1..nconn :
        (connOwner[c] = x \/ ReceiverOf(conns, c) = x) =>
          conns[c].callback = Null

C11_AfterClearSignalData ==
  /\ [](C11_NoEntriesInv /\ EmitNothingOnlyIfNone)
  /\ [][/\ \A x \in Objs :
             ClearSignalData(x) =>
               /\ emitterMap'[x] = NoConn
               /\ MapGet(receiverMap', x) = NoConn
               /\ \A c \in 1..nconn :
                    (connOwner[c] = x \/ ReceiverOf(conns, c) = x) =>
                      /\ conns'[c].callback = Null
                      /\ \A i \in 1..Len(stack') : c \notin stack'[i].pending
        /\ \A c \in 1..nconn :
             conns[c].callback = Null =>
               conns'[c].callback = Null /\ ~Entered(c)]_vars

\* C11 witness: emit on o1 is running a callback it called with the context
\* o2; during the call o2, which was the emitter of a connection too, lost
\* both its entries, the running connection and the one made on o2 are
\* cleared, and a connection of another receiver still waits for its call
C11_Witness ==
  /\ Len(stack) = 1
  /\ Top.owner = "o1"
  /\ Top.call.thisArg = "o2"
  /\ conns[Top.conn].callback = Null
  /\ emitterMap["o2"] = NoConn
  /\ receiverMap["o2"] = NoConn
  /\ \E c \in 1..nconn : connOwner[c] = "o2" /\ conns[c].callback = Null
                         /\ conns[c].token # Null
  /\ Top.pending # {}

\* Get the object which is emitting the current signal.
emitter == currentEmitter

\* C12: whenever a callback runs, emitter() is the owner of the innermost
\* emit in progress (the one that called it), each emit in progress holds
\* as its saved value the owner of the emit that encloses it (null for the
\* outermost), and emitter() is null whenever no emit is in progress; so
\* after a nested emit ends, by return or by exception, emitter() is again
\* the owner of the enclosing emit.
C12_ActiveEmitter ==
  /\ emitter = (IF stack = <<>> THEN Null ELSE Top.owner)
  /\ \A i \in 1..Len(stack) :
       stack[i].prev = (IF i = 1 THEN Null ELSE stack[i - 1].owner)

\* C12 witness: a callback called by an emit on o2 runs inside a callback
\* called by an emit on o1, and the emit on o1 has a connection left to
\* call after the nested emit has ended
C12_Witness ==
  /\ Len(stack) = 2
  /\ stack[1].owner = "o1"
  /\ stack[2].owner = "o2"
  /\ emitter = "o2"
  /\ stack[1].pending \ {stack[1].conn} # {}

\* C13: whenever no emit in progress iterates the list of an owner, the
\* owner has an emitter registry entry only if its list holds a connection
\* (an owner without an entry has no list): a compaction that empties the
\* list removes the entry.
C13_EntryIffNonEmpty ==
  \A o \in Objs :
    LET l == emitterMap[o] IN
    (l # NoConn /\ \A i \in 1..Len(stack) : stack[i].list # l) =>
      lists[l].first # NoConn

\* C14: when a call of emit returns normally and leaves the reentrancy
\* counter of its list at zero, and its own walk or the walk of an emit call
\* nested in it met a dead connection in the list, the list holds no dead
\* connection after the return.
C14_CompactionAtDepthZero ==
  [][/\ (/\ CallbackReturn
         /\ Len(stack') < Len(stack)
         /\ lists'[Top.list].refs = 0
         /\ \/ Top.seen
            \/ invokeResume(conns, Top.conn, Top.last, Top.token,
                            Top.dirty).dirty)
        => \A c \in ListChain(HeapNext, Top.list) : conns'[c].callback # Null
     /\ \A q \in Signals, a \in Args(Len(stack)) :
          LET l == emitterMap[q[1]] IN
          (/\ Emit(q[1], q[2], a)
           /\ l # NoConn
           /\ Len(stack') = Len(stack)
           /\ lists'[l].refs = 0
           /\ invokeFrom(conns, lists[l].first, lists[l].last, q[2],
                         FALSE).dirty)
          => \A c \in ListChain(HeapNext, l) : conns'[c].callback # Null]_vars

\* C15: while a call of emit iterates a list, no connection is unlinked from
\* the list: in every step that leaves the call in progress the list keeps
\* its first connection, every link between two connections of the list
\* stays, and the last connection changes only by connect appending a new
\* one after it; so in every state the walk of every call in progress
\* reaches the last connection it saved, and the reentrancy counter of the
\* list is not zero.
C15_WalkInv ==
  \A i \in 1..Len(stack) :
    /\ stack[i].last \in listFrom(conns, stack[i].conn, MaxConn)
    /\ lists[stack[i].list].refs > 0

C15_NoUnlinkWhileIterating ==
  /\ []C15_WalkInv
  /\ [][\A i \in 1..Min({Len(stack), Len(stack')}) :
          LET l == stack[i].list IN
          /\ stack'[i].list = l
          /\ lists'[l].first = lists[l].first
          /\ ListChain(Heap, l) \subseteq ListChain(HeapNext, l)
          /\ \A c \in ListChain(Heap, l) :
               conns[c].nextReceiver # NoConn =>
                 conns'[c].nextReceiver = conns[c].nextReceiver
          /\ lists'[l].last # lists[l].last =>
               /\ nconn' = nconn + 1
               /\ lists'[l].last = nconn'
               /\ conns'[lists[l].last].nextReceiver = nconn']_vars

\* C15 witness: a call of emit is running the first connection of its list;
\* a later connection of the list, before the last one the call saved, has
\* lost its callback during the call, and a nested call of emit on the list
\* has met it and ended; it is still linked between its neighbours
C15_Witness ==
  /\ Len(stack) = 1
  /\ Top.seen
  /\ Top.conn = lists[Top.list].first
  /\ \E c \in Top.skipped :
       /\ conns[Top.conn].nextReceiver = c
       /\ conns[c].nextReceiver = Top.last
       /\ c # Top.last

RECURSIVE seqFrom(_, _, _)
\* the connections reached from c by at most n nextReceiver links, in order
seqFrom(cs, c, n) ==
  IF c = NoConn \/ n = 0 THEN <<>>
  ELSE <<c>> \o seqFrom(cs, cs[c].nextReceiver, n - 1)

\* the connections linked in the ConnectionList l of registry H, in order
ListSeq(H, l) == seqFrom(H.conns, H.lists[l].first, MaxConn + 1)

\* the subsequence of the live connections of sequence sq
LiveSeq(H, sq) ==
  LET live(c) == H.conns[c].callback # Null IN SelectSeq(sq, live)

\* registry H2 holds list l compacted from what it is in registry H1
Compacted(H1, H2, l) ==
  LET sq == LiveSeq(H1, ListSeq(H1, l)) IN
  /\ ListSeq(H2, l) = sq
  /\ H2.lists[l].first = (IF sq = <<>> THEN NoConn ELSE sq[1])
  /\ H2.lists[l].last = (IF sq = <<>> THEN NoConn ELSE sq[Len(sq)])
  /\ sq # <<>> => H2.conns[sq[Len(sq)]].nextReceiver = NoConn
  /\ \A c \in ConnIds :
       /\ H2.conns[c].callback = H1.conns[c].callback
       /\ H2.conns[c].token = H1.conns[c].token
       /\ H2.conns[c].thisArg = H1.conns[c].thisArg

\* C16: cleanList on a list, whichever of its connections are dead (the
\* first, inner ones, the last, all of them), leaves the list holding the
\* connections that were live, in the order they had, first and last being
\* the first and the last of them (null if there is none) and the
\* nextReceiver of the last being null; and every step that unlinks a
\* connection from a list leaves the list so.
C16_CleanListInv ==
  \A l \in ListIds : Compacted(Heap, cleanList(Heap, l), l)

C16_CompactionKeepsLive ==
  /\ []C16_CleanListInv
  /\ [][\A l \in ListIds :
          ListSeq(HeapNext, l) # ListSeq(Heap, l) =>
            \/ Compacted(Heap, HeapNext, l)
            \/ /\ nconn' = nconn + 1
               /\ ListSeq(HeapNext, l) = Append(ListSeq(Heap, l), nconn')]_vars

\* C16 witness: the list of o1 had three connections of which the first and
\* the last were dead; a compaction has left the second as its only one
C16_Witness ==
  /\ nconn = 3
  /\ \A c \in 1..3 : connOwner[c] = "o1"
  /\ emitterMap["o1"] = 1
  /\ ListSeq(Heap, 1) = <<2>>
  /\ lists[1].first = 2 /\ lists[1].last = 2
  /\ conns[2].callback # Null
  /\ conns[1].callback = Null /\ conns[3].callback = Null

\* C17: in every reachable state the reentrancy counter of every
\* ConnectionList is the number of calls of emit in progress that iterate
\* the list: zero when there is none, whether the calls before ended by
\* return or by exception, and never negative.
C17_RefsCountsEmits ==
  \A l \in ListIds :
    /\ lists[l].refs = Cardinality({i \in 1..Len(stack) : stack[i].list = l})
    /\ lists[l].refs >= 0

\* C17 witness: two nested calls of emit iterate one list, whose counter is
\* 2, after a nested call on that list has ended; the list of another owner
\* has connections and is not iterated
C17_Witness ==
  /\ Len(stack) = 2
  /\ stack[1].list = stack[2].list
  /\ lists[stack[1].list].refs = 2
  /\ stack[1].seen
  /\ \E o \in Objs :
       /\ emitterMap[o] # NoConn
       /\ emitterMap[o] # stack[1].list
       /\ lists[emitterMap[o]].first # NoConn
       /\ lists[emitterMap[o]].refs = 0

\* C18: with callbacks that emit the signal being emitted again (to the
\* nesting bound) and connect to it meanwhile, and that do not run forever,
\* every emit call ends; each call, outer or nested, goes strictly forward
\* through the list, from connection to later connection, up to the last
\* connection it saved at its start, so it never calls a connection made
\* after its start; the connections that still wait for its call are not
\* before the one it is calling, and none waits when it returns normally.
C18_PassInv ==
  \A i \in 1..Len(stack) :
    LET F == stack[i] IN
    /\ F.conn <= F.last
    /\ \A c \in F.added : c > F.last
    /\ \A c \in F.pending : F.conn <= c /\ c <= F.last

C18_PassStep ==
  /\ EmitEndsComplete
  /\ (CallbackReturn /\ Len(stack') = Len(stack)) =>
       /\ TopOf(stack').conn > Top.conn
       /\ TopOf(stack').last = Top.last
       /\ TopOf(stack').conn \in Top.pending
  /\ \A i \in 1..Min({Len(stack), Len(stack')}) :
       i < Len(stack) => /\ stack'[i].conn = stack[i].conn
                         /\ stack'[i].last = stack[i].last

C18_RecursiveEmitTerminates ==
  /\ []C18_PassInv
  /\ [][C18_PassStep]_vars
  /\ (stack # <<>>) ~> (stack = <<>>)

\* C18 witness: a callback of an emit on a signal has connected to the
\* signal and emitted it again; the nested emit saved a later last
\* connection than the outer one, is running the callback again with a
\* connection still to call, and a connection has been made since it started
C18_Witness ==
  /\ Len(stack) = 2
  /\ stack[1].owner = stack[2].owner /\ stack[1].token = stack[2].token
  /\ stack[2].last > stack[1].last
  /\ stack[2].conn = stack[1].conn
  /\ stack[2].pending \ {stack[2].conn} # {}
  /\ stack[2].added # {}

\* the emit call of frame F iterates a list that disconnectEmitter has
\* taken from its owner
Orphaned(F) == emitterMap[F.owner] # F.list

\* C19: disconnectEmitter(e) called while emit calls on e are in progress
\* leaves them nothing to call; such a call reaches no further connection,
\* its walk still leads to the last connection it saved and it ends at the
\* return of the running callback; a connection made on e afterwards is in
\* a new list of e, not in the list the call walks, and every live
\* connection is linked in the list of its owner's entry, where the next
\* emit of its signal finds it.
C19_OrphanInv ==
  /\ \A i \in 1..Len(stack) :
       LET F == stack[i] IN
       Orphaned(F) =>
         /\ F.pending = {}
         /\ \A c \in ListChain(Heap, F.list) : conns[c].callback = Null
         /\ F.last \in listFrom(conns, F.conn, MaxConn)
         /\ invokeResume(conns, F.conn, F.last, F.token, F.dirty).conn = NoConn
         /\ \A c \in 1..nconn :
              (connOwner[c] = F.owner /\ conns[c].callback # Null) =>
                /\ c \notin ListChain(Heap, F.list)
                /\ c > F.last
  /\ \A c \in 1..nconn :
       conns[c].callback # Null =>
         /\ emitterMap[connOwner[c]] # NoConn
         /\ c \in ListChain(Heap, emitterMap[connOwner[c]])

C19_DisconnectEmitterDuringEmit ==
  /\ [](C19_OrphanInv /\ EmitNothingOnlyIfNone)
  /\ [][/\ EmitEndsComplete
        /\ \A e \in Objs :
             DisconnectEmitter(e) =>
               /\ emitterMap'[e] = NoConn
               /\ \A i \in 1..Len(stack') :
                    stack'[i].owner = e =>
                      /\ stack'[i].pending = {}
                      /\ emitterMap'[e] # stack'[i].list
        /\ (CallbackReturn /\ Orphaned(Top)) =>
             /\ Len(stack') < Len(stack)
             /\ \A c \in 1..nconn : ~Entered(c)]_vars

\* C19 witness: during an emit on an owner, before the call reached the
\* connection after the running one, the callback called disconnectEmitter
\* on the owner and then connected to the emitted signal again: the owner
\* has a new list with the new connection
C19_Witness ==
  /\ Len(stack) = 1
  /\ Orphaned(Top)
  /\ Top.conn < Top.last
  /\ Top.skipped # {}
  /\ Top.added # {}
  /\ emitterMap[Top.owner] # NoConn
  /\ Top.added \subseteq ListChain(Heap, emitterMap[Top.owner])

RECURSIVE recvSeqFrom(_, _, _)
\* the connections reached from c by at most n nextEmitter links, in order
recvSeqFrom(cs, c, n) ==
  IF c = NoConn \/ n = 0 THEN <<>>
  ELSE <<c>> \o recvSeqFrom(cs, cs[c].nextEmitter, n - 1)

\* the list of receiver r in registry H, in order
RecvSeq(H, r) == recvSeqFrom(H.conns, H.receiverMap[r], MaxConn + 1)

\* every object a client passes to the three functions
Things == Objs \cup Receivers

\* C20: in every reachable state disconnectEmitter, disconnectReceiver and
\* clearSignalData on any object complete without an exception; on an
\* object without the entry they look up they leave the registry as it is,
\* so a second call right after a first changes nothing; and
\* disconnectEmitter on an owner, whose list may hold connections that
\* disconnect or disconnectReceiver have cleared, takes out of every
\* receiver's list the live connections of the owner and nothing else.
C20_TeardownInv ==
  \A x \in Things :
    LET HE == disconnectEmitter(Heap, x)
        HR == disconnectReceiver(Heap, x)
        HC == clearSignalData(Heap, x)
        l == MapGet(emitterMap, x)
    IN
    /\ ~HE.err /\ ~HR.err /\ ~HC.err
    /\ l = NoConn => HE = Heap
    /\ MapGet(receiverMap, x) = NoConn => HR = Heap
    /\ (l = NoConn /\ MapGet(receiverMap, x) = NoConn) => HC = Heap
    /\ MapGet(HE.emitterMap, x) = NoConn
    /\ MapGet(HR.receiverMap, x) = NoConn
    /\ MapGet(HC.emitterMap, x) = NoConn /\ MapGet(HC.receiverMap, x) = NoConn
    /\ disconnectEmitter(HE, x) = HE
    /\ disconnectReceiver(HR, x) = HR
    /\ clearSignalData(HC, x) = HC
    /\ l # NoConn =>
         \A r \in Receivers :
           LET kept(c) == ~(c \in ListChain(Heap, l) /\ conns[c].callback # Null)
           IN RecvSeq(HE, r) = SelectSeq(RecvSeq(Heap, r), kept)

C20_TeardownIdempotent ==
  /\ []C20_TeardownInv
  /\ [][/\ \A e \in Objs :
             (DisconnectEmitter(e) /\ emitterMap[e] = NoConn) => UNCHANGED vars
        /\ \A r \in Receivers :
             (DisconnectReceiver(r) /\ receiverMap[r] = NoConn) => UNCHANGED vars
        /\ \A x \in Objs :
             (/\ ClearSignalData(x)
              /\ emitterMap[x] = NoConn
              /\ MapGet(receiverMap, x) = NoConn) => UNCHANGED vars]_vars

\* C20 witness: the list of o1 holds a connection that has been cleared,
\* before a live one; the list of receiver f holds that live connection and
\* a connection made on o2; o2 has no receiver entry
C20_Witness ==
  /\ emitterMap["o1"] # NoConn
  /\ receiverMap["o2"] = NoConn
  /\ \E c, d \in ListChain(Heap, emitterMap["o1"]) :
       /\ c < d
       /\ conns[c].callback = Null
       /\ conns[d].callback # Null
       /\ d \in RecvChain(Heap, "f")
  /\ \E c \in RecvChain(Heap, "f") : connOwner[c] = "o2"

\* C21: in every reachable state, for every receiver r, the connections
\* reached from the receiverMap entry of r are the live connections whose
\* receiver (`thisArg || callback`) is r, each of them linked in the list of
\* its owner's emitterMap entry and met once in r's list; the head of r's
\* list has no prevEmitter and prevEmitter of each other connection of the
\* list is the connection before it; and a connection without callback
\* has neither prevEmitter nor nextEmitter.
C21_RegistriesAgree ==
  /\ \A r \in Receivers :
       LET sq == RecvSeq(Heap, r) IN
       /\ RecvChain(Heap, r) =
            {c \in 1..nconn : /\ conns[c].callback # Null
                              /\ ReceiverOf(conns, c) = r}
       /\ \A c \in RecvChain(Heap, r) :
            /\ emitterMap[connOwner[c]] # NoConn
            /\ c \in ListChain(Heap, emitterMap[connOwner[c]])
       /\ Len(sq) = Cardinality(RecvChain(Heap, r))
       /\ \A i \in 1..Len(sq) :
            conns[sq[i]].prevEmitter = (IF i = 1 THEN NoConn ELSE sq[i - 1])
  /\ \A c \in ConnIds :
       conns[c].callback = Null =>
         conns[c].prevEmitter = NoConn /\ conns[c].nextEmitter = NoConn
  /\ \A c \in 1..nconn :
       conns[c].callback # Null => ReceiverOf(conns, c) \in Receivers

\* C21 witness: the list of receiver f holds connection 3 and then
\* connection 1, after connection 2, which was between them, was cleared;
\* connection 2 is still linked in the list of o1
C21_Witness ==
  /\ RecvSeq(Heap, "f") = <<3, 1>>
  /\ conns[2].callback = Null
  /\ conns[2].token = "t2"
  /\ emitterMap["o1"] # NoConn
  /\ 2 \in ListChain(Heap, emitterMap["o1"])

====
